---- MODULE Spec2Model ----
(***************************************************************************)
(* Model of phylorank/decorate.py (class Decorate): placement of taxon     *)
(* labels on the nodes of a rooted tree by F-measure, and resolution of    *)
(* tied placements by relative divergence.                                 *)
(*                                                                         *)
(* Encoding.                                                               *)
(*  - A tree is the sequence of its nodes' parents; nodes are numbered in  *)
(*    preorder (1 is the seed node, whose parent is 0), so iterating a     *)
(*    subtree in preorder is iterating its node numbers in increasing      *)
(*    order.                                                               *)
(*  - A taxon is <<rank_index, name>>; name 0 is the rank prefix alone     *)
(*    ('d__', 'p__': unclassified at that rank).  taxon[1] is what the     *)
(*    code reads as Taxonomy.rank_prefixes.index(taxon[0:3]).              *)
(*  - A node label is the record parse_label returns for it: support       *)
(*    (None when absent) and the list of taxon tokens of the               *)
(*    '; '-separated taxon string (empty when the taxon part is absent).   *)
(*  - Floats are exact rationals <<numerator, denominator>>; relative      *)
(*    divergences are integers in units of 0.05.                           *)
(***************************************************************************)
EXTENDS Integers, Sequences, FiniteSets, TLC

VARIABLES
    tree,               \* parent of every node, in preorder numbering
    taxonomy,           \* leaf -> lineage (one taxon per rank)
    skip_rd_refine,     \* argument of run()
    label,              \* node -> [support, taxon]
    fmeasure_for_taxa,  \* taxon -> list of <<node, fmeasure, precision, recall>>
    search_root,        \* taxon -> taxon_parent_node used when it was searched
    rank_index,         \* rank being processed by _fmeasure
    pending,            \* taxa of that rank still to be searched
    placed_taxon,       \* set returned by _assign_taxon_labels
    rel_dist,           \* node -> relative divergence
    median_rank_rd,     \* rank index -> median relative divergence
    todo,               \* taxa the resolver has still to visit, in its order
    pc,                 \* position in run()
    run_no,             \* how many times run() was started on this tree
    first_label         \* labels at the end of the first run

vars == <<tree, taxonomy, skip_rd_refine, label, fmeasure_for_taxa, search_root,
          rank_index, pending, placed_taxon, rel_dist, median_rank_rd, todo,
          pc, run_no, first_label>>

-----------------------------------------------------------------------------
(* Bounds and constants *)

\* run() is started at most this many times on the same tree
MaxRuns == 2

\* max_rd_diff=0.1, in units of 0.05
max_rd_diff == 2

\* None of Python
None == -1

\* Taxonomy.rank_prefixes, by index: 0 is 'd__', 1 is 'p__'
RankIndices == {0, 1}

d__ == <<0, 0>>
p__ == <<1, 0>>
d__D1 == <<0, 1>>
d__D2 == <<0, 2>>
p__P1 == <<1, 1>>
p__P2 == <<1, 2>>
p__P3 == <<1, 3>>

\* Taxonomy.rank_prefixes[i]
rank_prefixes(i) == <<i, 0>>

-----------------------------------------------------------------------------
(* Tree (dendropy) *)

Nodes(t) == 1..Len(t)

seed_node == 1

child_nodes(t, n) == {c \in Nodes(t) : t[c] = n}

is_leaf(t, n) == child_nodes(t, n) = {}

RECURSIVE IsAncestorOrSelf(_, _, _)
\* a is n or an ancestor of n
IsAncestorOrSelf(t, a, n) ==
    IF n = a THEN TRUE
    ELSE IF n = seed_node THEN FALSE
    ELSE IsAncestorOrSelf(t, a, t[n])

IsStrictAncestor(t, a, n) == a # n /\ IsAncestorOrSelf(t, a, n)

\* node.preorder_iter(): the subtree of n, as a set (iterated in increasing order)
Subtree(t, n) == {m \in Nodes(t) : IsAncestorOrSelf(t, n, m)}

\* node.leaf_iter()
leaf_iter(t, n) == {m \in Subtree(t, n) : is_leaf(t, m)}

\* tree.leaf_node_iter()
leaf_node_iter(t) == leaf_iter(t, seed_node)

\* tree.internal_nodes()
internal_nodes(t) == {n \in Nodes(t) : ~is_leaf(t, n)}

\* tree.mrca(taxa=...): the deepest node whose subtree holds all the leaves
mrca(t, leaves) ==
    LET common == {a \in Nodes(t) : \A l \in leaves : IsAncestorOrSelf(t, a, l)}
    IN  CHOOSE a \in common : \A b \in common : IsAncestorOrSelf(t, b, a)

RECURSIVE SetToSeq(_)
\* the elements of a set of integers as an increasing sequence
SetToSeq(S) ==
    IF S = {} THEN <<>>
    ELSE LET m == CHOOSE x \in S : \A y \in S : x <= y
         IN  <<m>> \o SetToSeq(S \ {m})

\* node.preorder_iter() as a list
preorder_iter(t, n) == SetToSeq(Subtree(t, n))

-----------------------------------------------------------------------------
(* Exact rationals standing for Python floats *)

Rat(n, d) == <<n, d>>
RMul(a, b) == <<a[1] * b[1], a[2] * b[2]>>
RAdd(a, b) == <<a[1] * b[2] + b[1] * a[2], a[2] * b[2]>>
RDiv(a, b) == <<a[1] * b[2], a[2] * b[1]>>
RLess(a, b) == a[1] * b[2] < b[1] * a[2]
REq(a, b) == a[1] * b[2] = b[1] * a[2]

-----------------------------------------------------------------------------
(* Taxonomy (biolib.taxonomy.Taxonomy), on the taxonomy trimmed to the tree *)

\* lineage[r + 1] is the taxon of rank index r
TaxonAt(lineage, r) == lineage[r + 1]

\* Taxonomy().named_lineages_at_rank(taxonomy)[r]
taxa_at_rank(tx, r) ==
    {TaxonAt(tx[l], r) : l \in DOMAIN tx} \ {rank_prefixes(r)}

\* Taxonomy().extant_taxa_for_rank(rank, taxonomy)[taxon]
extent_taxa_with_label(tx, r, taxon) ==
    {l \in DOMAIN tx : TaxonAt(tx[l], r) = taxon}

\* Taxonomy().parents(taxonomy)[taxon][-1], for a taxon below the first rank
taxon_parents_last(tx, taxon) ==
    LET l == CHOOSE l \in DOMAIN tx : TaxonAt(tx[l], taxon[1]) = taxon
    IN  TaxonAt(tx[l], taxon[1] - 1)

\* order of Taxonomy().sort_taxa: by rank prefix, then by name
TaxonBefore(a, b) == a[1] < b[1] \/ (a[1] = b[1] /\ a[2] < b[2])

RECURSIVE Insert(_, _)
Insert(s, x) ==
    IF s = <<>> THEN <<x>>
    ELSE IF TaxonBefore(x, Head(s)) THEN <<x>> \o s
    ELSE <<Head(s)>> \o Insert(Tail(s), x)

RECURSIVE sort_taxa(_)
\* Taxonomy().sort_taxa(list): duplicates are kept
sort_taxa(s) ==
    IF s = <<>> THEN <<>> ELSE Insert(sort_taxa(Tail(s)), Head(s))

RECURSIVE SetAsSeq(_)
SetAsSeq(S) ==
    IF S = {} THEN <<>>
    ELSE LET x == CHOOSE x \in S : TRUE IN <<x>> \o SetAsSeq(S \ {x})

\* Taxonomy().sort_taxa(list(d.keys()))
sort_keys(S) == sort_taxa(SetAsSeq(S))

\* the order of sort_taxa is kept
Reverse_Kept(s) == s

\* sort_taxa(..., reverse=True), line 369
Reverse(s) == [i \in 1..Len(s) |-> s[Len(s) + 1 - i]]

-----------------------------------------------------------------------------
(* Node labels (biolib.newick.parse_label / create_label) *)

\* create_label(support, taxon, None) as parse_label reads it back
create_label(support, taxon) == [support |-> support, taxon |-> taxon]

\* node.label is None
NoLabel == create_label(None, <<>>)

\* the taxon tokens of a label, as a set
Tokens(lab) == {lab.taxon[i] : i \in 1..Len(lab.taxon)}

-----------------------------------------------------------------------------
(* _fmeasure, lines 41-146 *)

\* node.taxa_count[rank_index][taxon], lines 74-84
taxa_count(t, tx, node, taxon) ==
    Cardinality({l \in leaf_iter(t, node) : TaxonAt(tx[l], taxon[1]) = taxon})

\* sum(node.taxa_count[rank_index].values()), line 133: the unclassified
\* leaves are not counted (line 80)
num_leaves_with_taxa(t, tx, node, r) ==
    Cardinality({l \in leaf_iter(t, node) : TaxonAt(tx[l], r) # rank_prefixes(r)})

\* taxa_in_tree[taxon], lines 86-89
taxa_in_tree(t, tx, taxon) ==
    Cardinality({<<l, r>> \in leaf_node_iter(t) \X RankIndices : TaxonAt(tx[l], r) = taxon})

\* total_taxa as the number of leaves of the tree, not of the taxon
total_taxa_AllLeaves(tx, taxon) == Cardinality(DOMAIN tx)

\* total_taxa as len(extent_taxa_with_label[rank_index]), the [taxon] forgotten
total_taxa_TaxaAtRank(tx, taxon) == Cardinality(taxa_at_rank(tx, taxon[1]))

\* total_taxa, line 129
total_taxa(tx, taxon) == Cardinality(extent_taxa_with_label(tx, taxon[1], taxon))

\* the nodes of a candidate list, lines 107-109
parent_nodes(cands) == {cands[i][1] : i \in 1..Len(cands)}

\* lines 111-117: the node below which the parent taxon was placed
ParentLineage(t, cands) ==
    IF Len(cands) = 1 THEN cands[1][1]
    ELSE mrca(t, UNION {leaf_iter(t, p) : p \in parent_nodes(cands)})

\* the parent lineage is left also when it holds exactly half of the taxon
Escapes_Leq(t, tx, node, taxon) ==
    2 * taxa_count(t, tx, node, taxon) <= taxa_in_tree(t, tx, taxon)

\* line 119: a substantial portion of the taxon falls outside the parent lineage
Escapes(t, tx, node, taxon) ==
    2 * taxa_count(t, tx, node, taxon) < taxa_in_tree(t, tx, taxon)

\* taxon_parent_node, lines 98-122, for a taxon that is searched
taxon_parent_node(t, tx, fm, taxon) ==
    IF taxon[1] = 0 THEN seed_node
    ELSE LET node == ParentLineage(t, fm[taxon_parents_last(tx, taxon)])
         IN  IF Escapes(t, tx, node, taxon) THEN seed_node ELSE node

\* the taxon is skipped also when the placement of its parent is unresolved
ParentNotPlaced_Unresolved(tx, fm, taxon) ==
    IF taxon[1] = 0 THEN FALSE
    ELSE IF taxon_parents_last(tx, taxon) \notin DOMAIN fm THEN TRUE
    ELSE Len(fm[taxon_parents_last(tx, taxon)]) # 1

\* line 103 (negated): the parent of the taxon was not placed
ParentNotPlaced(tx, fm, taxon) ==
    taxon[1] # 0 /\ taxon_parents_last(tx, taxon) \notin DOMAIN fm

\* lines 136-137
precision(t, tx, node, taxon) ==
    Rat(taxa_count(t, tx, node, taxon), num_leaves_with_taxa(t, tx, node, taxon[1]))

recall(t, tx, node, taxon) ==
    Rat(taxa_count(t, tx, node, taxon), total_taxa(tx, taxon))

\* line 138
fmeasure(p, r) == RDiv(RMul(Rat(2, 1), RMul(p, r)), RAdd(p, r))

\* line 135
Scored(t, tx, node, taxon) ==
    /\ taxa_count(t, tx, node, taxon) # 0
    /\ num_leaves_with_taxa(t, tx, node, taxon[1]) # 0

RECURSIVE BestNodes(_, _, _, _, _, _)
\* lines 128-144: the loop over taxon_parent_node.preorder_iter();
\* cur is cur_taxon_fmeasure, cands the list built so far
BestNodes(t, tx, nodes, taxon, cur, cands) ==
    IF nodes = <<>> THEN cands
    ELSE LET node == Head(nodes)
             p == precision(t, tx, node, taxon)
             r == recall(t, tx, node, taxon)
             f == fmeasure(p, r)
         IN  IF ~Scored(t, tx, node, taxon)
             THEN BestNodes(t, tx, Tail(nodes), taxon, cur, cands)
             ELSE IF RLess(cur, f)
             THEN BestNodes(t, tx, Tail(nodes), taxon, f, <<<<node, f, p, r>>>>)
             ELSE IF REq(f, cur)
             THEN BestNodes(t, tx, Tail(nodes), taxon, cur, Append(cands, <<node, f, p, r>>))
             ELSE BestNodes(t, tx, Tail(nodes), taxon, cur, cands)

\* the search goes through the whole tree, whatever the search root
Candidates_WholeTree(t, tx, root, taxon) ==
    BestNodes(t, tx, preorder_iter(t, seed_node), taxon, Rat(-1, 1), <<>>)

\* the candidate list of a taxon searched below root
Candidates(t, tx, root, taxon) ==
    BestNodes(t, tx, preorder_iter(t, root), taxon, Rat(-1, 1), <<>>)

RECURSIVE NextRank(_, _)
\* line 93: the next rank index, from r on, that has taxa to process
\* (one past the last rank index when there is none)
NextRank(tx, r) ==
    IF r \notin RankIndices THEN r
    ELSE IF taxa_at_rank(tx, r) # {} THEN r
    ELSE NextRank(tx, r + 1)

-----------------------------------------------------------------------------
(* _strip_taxon_labels, lines 148-160 *)

_strip_taxon_labels(t, lab) ==
    [n \in Nodes(t) |->
        IF n \in internal_nodes(t) /\ lab[n].support # None /\ lab[n].support # 0
        THEN create_label(lab[n].support, <<>>)
        ELSE lab[n]]

-----------------------------------------------------------------------------
(* _assign_taxon_labels, lines 162-189 *)

\* lines 182-187
AppendTaxon(lab, node, taxon) ==
    [lab EXCEPT ![node] = create_label(@.support, Append(@.taxon, taxon))]

RECURSIVE AssignLabels(_, _, _)
\* lines 177-187, over the sorted taxa
AssignLabels(taxa, fm, lab) ==
    IF taxa = <<>> THEN lab
    ELSE LET taxon == Head(taxa)
         IN  IF Len(fm[taxon]) = 1
             THEN AssignLabels(Tail(taxa), fm, AppendTaxon(lab, fm[taxon][1][1], taxon))
             ELSE AssignLabels(Tail(taxa), fm, lab)

_assign_taxon_labels(fm, lab) == AssignLabels(sort_keys(DOMAIN fm), fm, lab)

\* the set returned, lines 176-189
PlacedTaxon(fm) == {taxon \in DOMAIN fm : Len(fm[taxon]) = 1}

-----------------------------------------------------------------------------
(* _resolve_ambiguous_placements, lines 349-428 *)

\* closest_dist = 1e9, line 381
closest_dist_init == 1000000000

Abs(x) == IF x < 0 THEN -x ELSE x

\* cur_rank_index, lines 386-390: the rank of the last token of the label
cur_rank_index(lab) ==
    IF lab.taxon = <<>> THEN -1 ELSE lab.taxon[Len(lab.taxon)][1]

RECURSIVE ClosestIndex_Leq(_, _, _, _, _, _, _, _)
\* line 405 with rd_diff <= closest_dist: a later, equally near node replaces
ClosestIndex_Leq(cands, i, lab, r, rd, rdist, closest_index, closest_dist) ==
    IF i > Len(cands) THEN closest_index
    ELSE LET cur_node == cands[i][1]
             rd_diff == Abs(rd - rdist[cur_node])
         IN  IF cur_rank_index(lab[cur_node]) > r
             THEN (IF closest_index = 0 THEN i ELSE closest_index)
             ELSE IF rd_diff > max_rd_diff
             THEN ClosestIndex_Leq(cands, i + 1, lab, r, rd, rdist, closest_index, closest_dist)
             ELSE IF rd_diff <= closest_dist
             THEN ClosestIndex_Leq(cands, i + 1, lab, r, rd, rdist, i, rd_diff)
             ELSE ClosestIndex_Leq(cands, i + 1, lab, r, rd, rdist, closest_index, closest_dist)

RECURSIVE ClosestIndex(_, _, _, _, _, _, _, _)
\* lines 383-408: the loop over the candidates from index i on, for a taxon of
\* rank index r with median rd; 0 stands for closest_index = None
ClosestIndex(cands, i, lab, r, rd, rdist, closest_index, closest_dist) ==
    IF i > Len(cands) THEN closest_index
    ELSE LET cur_node == cands[i][1]
             rd_diff == Abs(rd - rdist[cur_node])
         IN  IF cur_rank_index(lab[cur_node]) > r
             THEN (IF closest_index = 0 THEN i ELSE closest_index)
             ELSE IF rd_diff > max_rd_diff
             THEN ClosestIndex(cands, i + 1, lab, r, rd, rdist, closest_index, closest_dist)
             ELSE IF rd_diff < closest_dist
             THEN ClosestIndex(cands, i + 1, lab, r, rd, rdist, i, rd_diff)
             ELSE ClosestIndex(cands, i + 1, lab, r, rd, rdist, closest_index, closest_dist)

\* line 414 falling back to the first candidate, not the last
ChosenIndex_First(cands, lab, r, rd, rdist) ==
    LET closest_index == ClosestIndex(cands, 1, lab, r, rd, rdist, 0, closest_dist_init)
    IN  IF closest_index = 0 THEN 1 ELSE closest_index

\* lines 380-415: the index of the candidate that is kept
ChosenIndex(cands, lab, r, rd, rdist) ==
    LET closest_index == ClosestIndex(cands, 1, lab, r, rd, rdist, 0, closest_dist_init)
    IN  IF closest_index = 0 THEN Len(cands) ELSE closest_index

\* lines 417-425: add label to node
MergeTaxon(lab, node, taxon) ==
    [lab EXCEPT ![node] =
        IF @.taxon = <<>> THEN create_label(@.support, <<taxon>>)
        ELSE create_label(@.support, sort_taxa(Append(@.taxon, taxon)))]

-----------------------------------------------------------------------------
(* run, lines 501-507: select the most terminal placement *)

\* line 505 with len(fmeasures) > 2: a list of two candidates is kept
TerminalPlacements_OverTwo(fm) ==
    [taxon \in DOMAIN fm |->
        IF Len(fm[taxon]) > 2 THEN <<fm[taxon][Len(fm[taxon])]>> ELSE fm[taxon]]

TerminalPlacements(fm) ==
    [taxon \in DOMAIN fm |->
        IF Len(fm[taxon]) # 1 THEN <<fm[taxon][Len(fm[taxon])]>> ELSE fm[taxon]]

-----------------------------------------------------------------------------
(* Inputs *)

\* (((A,B),C),D)
TreeLadder == <<0, 1, 2, 3, 3, 2, 1>>
\* ((a,x),(c,y))
TreeBalanced == <<0, 1, 2, 2, 1, 5, 5>>
\* ((a,b),c)
TreeSmall == <<0, 1, 2, 2, 1>>

\* ((a,b),(c,(d,e)))
TreeFive == <<0, 1, 2, 2, 1, 5, 5, 7, 7>>

Trees == {TreeSmall, TreeLadder, TreeBalanced, TreeFive}

\* the lineages a leaf may have; the parent of every named taxon is the same
\* on all the leaves that carry it, so Taxonomy().parents is a function of the
\* taxon alone
Lineages ==
    {<<d__D1, p__P1>>, <<d__D1, p__P2>>, <<d__D1, p__>>, <<d__D2, p__>>,
     <<d__, p__P3>>, <<d__, p__>>}

\* on the trees of four leaves, the lineages are three of these
LadderLineages == {<<d__D1, p__P1>>, <<d__D1, p__P2>>, <<d__D2, p__>>}
BalancedLineages == {<<d__D1, p__P1>>, <<d__D1, p__>>, <<d__D2, p__>>}

\* on the tree of five leaves: a is in domain D1, e is in domain D2, d is in
\* phylum P1 or in domain D2, b and c have any of the three lineages
FiveLineages(leaf) ==
    IF leaf = 3 THEN {<<d__D1, p__P1>>, <<d__D1, p__P2>>}
    ELSE IF leaf = 8 THEN {<<d__D1, p__P1>>, <<d__D2, p__>>}
    ELSE IF leaf = 9 THEN {<<d__D2, p__>>}
    ELSE LadderLineages

Taxonomies(t) ==
    IF t = TreeFive
    THEN {tx \in [leaf_node_iter(t) -> LadderLineages] :
            \A leaf \in leaf_node_iter(t) : tx[leaf] \in FiveLineages(leaf)}
    ELSE [leaf_node_iter(t) ->
            IF t = TreeLadder THEN LadderLineages
            ELSE IF t = TreeBalanced THEN BalancedLineages
            ELSE Lineages]

\* labels of the tree as read: a leaf has no node label; the internal nodes
\* below the seed node all have a support value of 90, or none has one
InputLabels(t) ==
    {[n \in Nodes(t) |->
        IF is_leaf(t, n) \/ n = seed_node THEN NoLabel ELSE create_label(s, <<>>)] :
     s \in {None, 90}}

\* relative divergences 0.25 and 0.40 of the internal nodes
RelDistValues == {5, 8}

\* relative divergence of the leaves: 0.25 or 1.0
LeafRelDistValues == {5, 20}

\* node -> rel_dist, lines 343-345: 0.0 at the seed node
RelDists(t) ==
    {[n \in Nodes(t) |->
        IF n = seed_node THEN 0 ELSE IF is_leaf(t, n) THEN lf ELSE rd[n]] :
     rd \in [internal_nodes(t) -> RelDistValues], lf \in LeafRelDistValues}

\* medians 0.30 and 0.60 of the ranks
MedianValues == {6, 12}

-----------------------------------------------------------------------------
(* The run *)

Init ==
    /\ tree \in Trees
    /\ taxonomy \in Taxonomies(tree)
    /\ label \in InputLabels(tree)
    /\ skip_rd_refine \in BOOLEAN
    /\ fmeasure_for_taxa = <<>>
    /\ search_root = <<>>
    /\ rank_index = 0
    /\ pending = {}
    /\ placed_taxon = {}
    /\ rel_dist = [n \in Nodes(tree) |-> 0]
    /\ median_rank_rd = [r \in RankIndices |-> 0]
    /\ todo = <<>>
    /\ pc = "start"
    /\ run_no = 0
    /\ first_label = label

\* run, lines 458-480: strip the previous labels and enter _fmeasure
StartRun ==
    /\ pc = "start" \/ (pc = "done" /\ run_no < MaxRuns)
    /\ run_no' = run_no + 1
    /\ label' = _strip_taxon_labels(tree, label)
    /\ fmeasure_for_taxa' = <<>>
    /\ search_root' = <<>>
    /\ placed_taxon' = {}
    /\ todo' = <<>>
    /\ rank_index' = NextRank(taxonomy, 0)
    /\ pending' = IF rank_index' \in RankIndices
                  THEN taxa_at_rank(taxonomy, rank_index') ELSE {}
    /\ pc' = IF rank_index' \in RankIndices THEN "fmeasure" ELSE "assign"
    /\ UNCHANGED <<tree, taxonomy, skip_rd_refine, rel_dist, median_rank_rd, first_label>>

\* lines 93-97: the taxon loop moves on after one taxon
NextTaxon(taxon) ==
    /\ rank_index' = IF pending = {taxon}
                     THEN NextRank(taxonomy, rank_index + 1) ELSE rank_index
    /\ pending' = IF pending # {taxon} THEN pending \ {taxon}
                  ELSE IF rank_index' \in RankIndices
                  THEN taxa_at_rank(taxonomy, rank_index') ELSE {}
    /\ pc' = IF rank_index' \in RankIndices THEN "fmeasure" ELSE "assign"

\* _fmeasure, lines 97-144: one taxon is searched
SearchTaxon ==
    /\ pc = "fmeasure"
    /\ \E taxon \in pending :
        /\ ~ParentNotPlaced(taxonomy, fmeasure_for_taxa, taxon)
        /\ LET root == taxon_parent_node(tree, taxonomy, fmeasure_for_taxa, taxon)
               cands == Candidates(tree, taxonomy, root, taxon)
           IN  /\ search_root' = (taxon :> root) @@ search_root
               /\ fmeasure_for_taxa' =
                    IF cands = <<>> THEN fmeasure_for_taxa
                    ELSE (taxon :> cands) @@ fmeasure_for_taxa
        /\ NextTaxon(taxon)
    /\ UNCHANGED <<tree, taxonomy, skip_rd_refine, label, placed_taxon, rel_dist,
                   median_rank_rd, todo, run_no, first_label>>

\* _fmeasure, lines 123-126: the parent of the taxon was not placed
SkipTaxon ==
    /\ pc = "fmeasure"
    /\ \E taxon \in pending :
        /\ ParentNotPlaced(taxonomy, fmeasure_for_taxa, taxon)
        /\ NextTaxon(taxon)
    /\ UNCHANGED <<tree, taxonomy, skip_rd_refine, label, fmeasure_for_taxa,
                   search_root, placed_taxon, rel_dist, median_rank_rd, todo,
                   run_no, first_label>>

\* run, lines 482-486: place the labels with one acceptable position
AssignUnambiguous ==
    /\ pc = "assign"
    /\ label' = _assign_taxon_labels(fmeasure_for_taxa, label)
    /\ placed_taxon' = PlacedTaxon(fmeasure_for_taxa)
    /\ pc' = IF skip_rd_refine THEN "select" ELSE "median_rd"
    /\ UNCHANGED <<tree, taxonomy, skip_rd_refine, fmeasure_for_taxa, search_root,
                   rank_index, pending, rel_dist, median_rank_rd, todo, run_no,
                   first_label>>

\* run, lines 489-500, and _median_rank_rd, lines 334-347: the divergences come
\* from Outliers; a later run on the same tree gets the same values
MedianRankRd ==
    /\ pc = "median_rd"
    /\ IF run_no = 1
       THEN /\ rel_dist' \in RelDists(tree)
            /\ median_rank_rd' \in [RankIndices -> MedianValues]
       ELSE UNCHANGED <<rel_dist, median_rank_rd>>
    /\ todo' = Reverse(sort_keys(DOMAIN fmeasure_for_taxa))
    /\ pc' = IF todo' = <<>> THEN "stats" ELSE "resolve"
    /\ UNCHANGED <<tree, taxonomy, skip_rd_refine, label, fmeasure_for_taxa,
                   search_root, rank_index, pending, placed_taxon, run_no, first_label>>

\* _resolve_ambiguous_placements, lines 369-371: nothing to resolve for the taxon
ResolveContinue ==
    /\ pc = "resolve"
    /\ Len(fmeasure_for_taxa[Head(todo)]) = 1
    /\ todo' = Tail(todo)
    /\ pc' = IF todo' = <<>> THEN "stats" ELSE "resolve"
    /\ UNCHANGED <<tree, taxonomy, skip_rd_refine, label, fmeasure_for_taxa,
                   search_root, rank_index, pending, placed_taxon, rel_dist,
                   median_rank_rd, run_no, first_label>>

\* _resolve_ambiguous_placements, lines 373-428: one ambiguous taxon is resolved
ResolveTaxon ==
    /\ pc = "resolve"
    /\ Len(fmeasure_for_taxa[Head(todo)]) # 1
    /\ LET taxon == Head(todo)
           cands == fmeasure_for_taxa[taxon]
           closest_index == ChosenIndex(cands, label, taxon[1],
                                        median_rank_rd[taxon[1]], rel_dist)
       IN  /\ label' = MergeTaxon(label, cands[closest_index][1], taxon)
           /\ fmeasure_for_taxa' =
                [fmeasure_for_taxa EXCEPT ![taxon] = <<cands[closest_index]>>]
    /\ todo' = Tail(todo)
    /\ pc' = IF todo' = <<>> THEN "stats" ELSE "resolve"
    /\ UNCHANGED <<tree, taxonomy, skip_rd_refine, search_root, rank_index, pending,
                   placed_taxon, rel_dist, median_rank_rd, run_no, first_label>>

\* run, lines 501-516: without refinement, keep the most terminal placement,
\* strip the labels and place all labels
SkipRdRefine ==
    /\ pc = "select"
    /\ fmeasure_for_taxa' = TerminalPlacements(fmeasure_for_taxa)
    /\ label' = _assign_taxon_labels(fmeasure_for_taxa',
                                     _strip_taxon_labels(tree, label))
    /\ placed_taxon' = PlacedTaxon(fmeasure_for_taxa')
    /\ pc' = "stats"
    /\ UNCHANGED <<tree, taxonomy, skip_rd_refine, search_root, rank_index, pending,
                   rel_dist, median_rank_rd, todo, run_no, first_label>>

\* _write_statistics_table, lines 204-207: a taxon with several positions
MultiplePositions(fm) == \E taxon \in DOMAIN fm : Len(fm[taxon]) # 1

\* ordered_taxa[-1] of an empty list, line 243
IndexError == "IndexError"

\* leaf_taxa, lines 227-238: from the leaf to the seed node, the tokens of each
\* label from the last to the first
RECURSIVE leaf_taxa(_, _, _)
leaf_taxa(t, lab, node) ==
    IF node = 0 THEN <<>>
    ELSE Reverse(lab[node].taxon) \o leaf_taxa(t, lab, t[node])

\* lines 240-245: the ranks after the rank of the last taxon are filled with
\* their prefixes; the last taxon of an empty list raises IndexError
fill_missing_ranks(ordered_taxa) ==
    IF ordered_taxa = <<>> THEN IndexError
    ELSE LET last_rank == ordered_taxa[Len(ordered_taxa)][1]
         IN  ordered_taxa \o
             [i \in 1..(Cardinality(RankIndices) - 1 - last_rank) |->
                rank_prefixes(last_rank + i)]

\* _leaf_taxa, lines 214-247
_leaf_taxa(t, lab, leaf) == fill_missing_ranks(Reverse(leaf_taxa(t, lab, leaf)))

\* run, lines 523-526, and _write_taxonomy, lines 272-289: the taxonomy of
\* every leaf is written, or _leaf_taxa raises
WriteTaxonomy ==
    /\ pc = "taxonomy"
    /\ pc' = IF \E leaf \in leaf_node_iter(tree) :
                    _leaf_taxa(tree, label, leaf) = IndexError
             THEN "error" ELSE "done"
    /\ UNCHANGED <<tree, taxonomy, skip_rd_refine, label, fmeasure_for_taxa,
                   search_root, rank_index, pending, placed_taxon, rel_dist,
                   median_rank_rd, todo, run_no, first_label>>

\* run, lines 518-521: the statistics table is written, or the run exits
WriteStatisticsTable ==
    /\ pc = "stats"
    /\ pc' = IF MultiplePositions(fmeasure_for_taxa) THEN "exit" ELSE "taxonomy"
    /\ first_label' = IF run_no = 1 THEN label ELSE first_label
    /\ UNCHANGED <<tree, taxonomy, skip_rd_refine, label, fmeasure_for_taxa,
                   search_root, rank_index, pending, placed_taxon, rel_dist,
                   median_rank_rd, todo, run_no>>

Next ==
    \/ StartRun
    \/ SearchTaxon
    \/ SkipTaxon
    \/ AssignUnambiguous
    \/ MedianRankRd
    \/ ResolveContinue
    \/ ResolveTaxon
    \/ SkipRdRefine
    \/ WriteStatisticsTable
    \/ WriteTaxonomy

Spec == Init /\ [][Next]_vars

-----------------------------------------------------------------------------
(* Properties *)

\* the named taxa of the trimmed taxonomy
AllTaxa == UNION {taxa_at_rank(taxonomy, r) : r \in RankIndices}

\* the run is past resolution (either path of run())
Resolved == pc \in {"stats", "taxonomy", "done", "exit", "error"}

\* the candidate list the search built for a taxon, before any resolution
SearchedCandidates(taxon) ==
    Candidates(tree, taxonomy, search_root[taxon], taxon)

\* how many times a taxon is written on the tree
TotalOccurrences(taxon) ==
    Cardinality(UNION {{<<n, i>> : i \in {i \in 1..Len(label[n].taxon) :
                                            label[n].taxon[i] = taxon}} :
                       n \in Nodes(tree)})

\* C1: after resolution, on both paths of run(), every taxon of the candidate
\* map has exactly one candidate, and the run never takes the fatal exit of
\* _write_statistics_table.
C1_OneCandidateAfterResolution ==
    /\ Resolved => \A taxon \in DOMAIN fmeasure_for_taxa :
                        Len(fmeasure_for_taxa[taxon]) = 1
    /\ pc # "exit"

\* a run is complete in which a taxon had tied candidates after the search
C1_Witness ==
    /\ pc = "done"
    /\ \E taxon \in DOMAIN fmeasure_for_taxa : Len(SearchedCandidates(taxon)) > 1

\* C2: in the final tree no node with a label of rank r is a strict descendant
\* of a node with a label of a strictly more specific rank.
C2_HierarchyConsistent ==
    (pc = "done" /\ run_no = 1) =>
        \A m, n \in Nodes(tree) :
            IsStrictAncestor(tree, m, n) =>
                \A a \in Tokens(label[m]), b \in Tokens(label[n]) : a[1] <= b[1]

\* C3: at the end of run() every taxon with candidates is written exactly once,
\* on the node of its one candidate, and every other taxon is written nowhere.
C3_WriteOnce ==
    (pc = "done" /\ run_no = 1) =>
        \A taxon \in AllTaxa :
            IF taxon \in DOMAIN fmeasure_for_taxa
            THEN /\ TotalOccurrences(taxon) = 1
                 /\ taxon \in Tokens(label[fmeasure_for_taxa[taxon][1][1]])
            ELSE TotalOccurrences(taxon) = 0

\* C4: every candidate of a taxon, and so the node committed for it, lies in
\* the subtree of the search root computed for the taxon in _fmeasure, and
\* after resolution the taxon is written on the committed node.
C4_WithinSearchRoot ==
    /\ \A taxon \in DOMAIN fmeasure_for_taxa :
            \A i \in 1..Len(fmeasure_for_taxa[taxon]) :
                IsAncestorOrSelf(tree, search_root[taxon], fmeasure_for_taxa[taxon][i][1])
    /\ Resolved =>
            \A taxon \in DOMAIN fmeasure_for_taxa :
                taxon \in Tokens(label[fmeasure_for_taxa[taxon][1][1]])
    /\ (Resolved /\ run_no = 1) =>
            \A taxon \in DOMAIN fmeasure_for_taxa : \A n \in Nodes(tree) :
                taxon \in Tokens(label[n]) => IsAncestorOrSelf(tree, search_root[taxon], n)

\* a taxon searched below the node of its parent taxon, not the seed node,
\* had tied candidates and is committed strictly below its search root
C4_Witness ==
    /\ pc = "done"
    /\ \E taxon \in DOMAIN fmeasure_for_taxa :
        /\ search_root[taxon] # seed_node
        /\ Len(SearchedCandidates(taxon)) > 1
        /\ fmeasure_for_taxa[taxon][1][1] # search_root[taxon]

\* C5: a second run on the labelled tree of the first run, with the same
\* taxonomy and divergences, ends with the same label on every node.
C5_Idempotent ==
    (pc = "done" /\ run_no = 2) => label = first_label

\* the scenario of C6: leaves A, B, C, D are nodes 4, 5, 6, 7 of (((A,B),C),D)
C6_Scenario ==
    /\ tree = TreeLadder
    /\ taxonomy = (4 :> <<d__D1, p__P1>> @@ 5 :> <<d__D1, p__P1>> @@
                   6 :> <<d__D1, p__P2>> @@ 7 :> <<d__D2, p__>>)

\* a taxon is written on a node
Carries(n, taxon) == taxon \in Tokens(label[n])

\* the first three expectations of C6: D1 on the node grouping (A,B,C) with
\* F-measure 1.0, P1 on the node grouping (A,B), P2 on the node of leaf C
C6_Common ==
    /\ Carries(2, d__D1)
    /\ fmeasure_for_taxa[d__D1][1][1] = 2
    /\ REq(fmeasure_for_taxa[d__D1][1][2], Rat(1, 1))
    /\ Carries(3, p__P1)
    /\ Carries(6, p__P2)

RdDiff(taxon, node) == Abs(median_rank_rd[taxon[1]] - rel_dist[node])

\* the node is within max_rd_diff of the median of the rank of the taxon
Within(taxon, node) == RdDiff(taxon, node) <= max_rd_diff

\* no token of a rank more specific than the taxon is written on the node
NoFinerLabel(taxon, node) == \A tok \in Tokens(label[node]) : tok[1] <= taxon[1]

\* the resolver is about to resolve the ambiguous taxon at the head of todo,
\* none of whose candidates has a more specific label
ResolvingPlain ==
    /\ pc = "resolve"
    /\ Len(fmeasure_for_taxa[Head(todo)]) > 1
    /\ \A i \in 1..Len(fmeasure_for_taxa[Head(todo)]) :
            NoFinerLabel(Head(todo), fmeasure_for_taxa[Head(todo)][i][1])

\* the earliest of the candidates nearest to the median, among those within
\* max_rd_diff of it
NearestIndex(taxon, cands) ==
    CHOOSE i \in 1..Len(cands) :
        /\ Within(taxon, cands[i][1])
        /\ \A j \in 1..Len(cands) :
            Within(taxon, cands[j][1]) =>
                \/ RdDiff(taxon, cands[i][1]) < RdDiff(taxon, cands[j][1])
                \/ (RdDiff(taxon, cands[i][1]) = RdDiff(taxon, cands[j][1]) /\ i <= j)

\* the taxon was left with the one candidate and is written on its node
CommittedTo(taxon, cand) ==
    /\ fmeasure_for_taxa'[taxon] = <<cand>>
    /\ taxon \in Tokens(label'[cand[1]])

\* C7: when the resolver handles an ambiguous taxon none of whose candidates has
\* a more specific label and some of whose candidates are within max_rd_diff
\* of the median of its rank, it commits the nearest of these, the earliest in
\* candidate order among equally near ones.
C7_NearestWithinCommitted ==
    [][ (ResolvingPlain /\ \E i \in 1..Len(fmeasure_for_taxa[Head(todo)]) :
                                Within(Head(todo), fmeasure_for_taxa[Head(todo)][i][1]))
        => CommittedTo(Head(todo),
                       fmeasure_for_taxa[Head(todo)][
                           NearestIndex(Head(todo), fmeasure_for_taxa[Head(todo)])]) ]_vars

\* the taxon was resolved by _resolve_ambiguous_placements in the first run
ResolverDid(taxon) ==
    /\ run_no = 1 /\ ~skip_rd_refine
    /\ pc \in {"resolve", "stats"}
    /\ taxon \in DOMAIN fmeasure_for_taxa \ placed_taxon
    /\ \A i \in 1..Len(todo) : todo[i] # taxon
    /\ \A i \in 1..Len(SearchedCandidates(taxon)) :
            NoFinerLabel(taxon, SearchedCandidates(taxon)[i][1])

\* the example of C7: two tied candidates with rel_dist 0.25 and 0.40, the
\* median of the rank is 0.30, and the node with 0.25 was committed
C7_Witness ==
    \E taxon \in AllTaxa :
        /\ ResolverDid(taxon)
        /\ Len(SearchedCandidates(taxon)) = 2
        /\ median_rank_rd[taxon[1]] = 6
        /\ rel_dist[SearchedCandidates(taxon)[1][1]] = 8
        /\ rel_dist[SearchedCandidates(taxon)[2][1]] = 5
        /\ fmeasure_for_taxa[taxon] = <<SearchedCandidates(taxon)[2]>>

\* C8: when the resolver handles an ambiguous taxon none of whose candidates has
\* a more specific label or is within max_rd_diff of the median of its rank, it
\* commits the last candidate, which is a strict ancestor of no other candidate;
\* and the skip_rd_refine path keeps the last candidate of every taxon.
C8_FallbackToLast ==
    [][ /\ (ResolvingPlain /\ \A i \in 1..Len(fmeasure_for_taxa[Head(todo)]) :
                                ~Within(Head(todo), fmeasure_for_taxa[Head(todo)][i][1]))
            => LET cands == fmeasure_for_taxa[Head(todo)]
               IN  /\ CommittedTo(Head(todo), cands[Len(cands)])
                   /\ \A j \in 1..Len(cands) :
                        ~IsStrictAncestor(tree, cands[Len(cands)][1], cands[j][1])
        /\ pc = "select"
            => \A taxon \in DOMAIN fmeasure_for_taxa :
                 LET cands == fmeasure_for_taxa[taxon]
                 IN  /\ CommittedTo(taxon, cands[Len(cands)])
                     /\ \A j \in 1..Len(cands) :
                          ~IsStrictAncestor(tree, cands[Len(cands)][1], cands[j][1]) ]_vars

\* the example of C8: two tied candidates with rel_dist 0.25 and 0.40, the
\* median of the rank is 0.60, and the later of the two was committed
C8_Witness ==
    \E taxon \in AllTaxa :
        /\ ResolverDid(taxon)
        /\ Len(SearchedCandidates(taxon)) = 2
        /\ median_rank_rd[taxon[1]] = 12
        /\ rel_dist[SearchedCandidates(taxon)[1][1]] = 5
        /\ rel_dist[SearchedCandidates(taxon)[2][1]] = 8
        /\ fmeasure_for_taxa[taxon] = <<SearchedCandidates(taxon)[2]>>

\* a rational is in [0, 1]
InUnit(q) == q[2] > 0 /\ 0 <= q[1] /\ q[1] <= q[2]

\* C9: every stored (F-measure, precision, recall) has its three values in
\* [0, 1], and F * (precision + recall) = 2 * precision * recall with
\* precision + recall > 0.
C9_MeasuresInRange ==
    \A taxon \in DOMAIN fmeasure_for_taxa :
        \A i \in 1..Len(fmeasure_for_taxa[taxon]) :
            LET f == fmeasure_for_taxa[taxon][i][2]
                p == fmeasure_for_taxa[taxon][i][3]
                r == fmeasure_for_taxa[taxon][i][4]
            IN  /\ InUnit(f) /\ InUnit(p) /\ InUnit(r)
                /\ RLess(Rat(0, 1), RAdd(p, r))
                /\ REq(RMul(f, RAdd(p, r)), RMul(Rat(2, 1), RMul(p, r)))

\* a taxon of a rank at which a leaf of the tree is unclassified has a candidate
\* with precision, and so F-measure, below 1
C9_Witness ==
    \E taxon \in DOMAIN fmeasure_for_taxa :
        /\ \E l \in leaf_node_iter(tree) :
                TaxonAt(taxonomy[l], taxon[1]) = rank_prefixes(taxon[1])
        /\ RLess(fmeasure_for_taxa[taxon][1][2], Rat(1, 1))
        /\ RLess(fmeasure_for_taxa[taxon][1][3], Rat(1, 1))

\* the loop of _fmeasure is past the taxon in the current run
PastSearch(taxon) ==
    /\ pc # "start"
    /\ pc = "fmeasure" =>
        \/ taxon[1] < rank_index
        \/ (taxon[1] = rank_index /\ taxon \notin pending)

\* C10: once _fmeasure is past a taxon: a taxon of the most general rank has
\* candidates; a taxon of another rank has none if and only if its parent
\* taxon has none; and a taxon that was skipped (no search root was computed
\* for it) has no candidate and is written on no node, in every later state.
C10_SkippedOnlyByParent ==
    \A taxon \in AllTaxa :
        PastSearch(taxon) =>
            /\ taxon[1] = 0 => taxon \in DOMAIN fmeasure_for_taxa
            /\ taxon[1] # 0 =>
                (taxon \notin DOMAIN fmeasure_for_taxa
                    <=> taxon_parents_last(taxonomy, taxon) \notin DOMAIN fmeasure_for_taxa)
            /\ taxon \in DOMAIN search_root <=> taxon \in DOMAIN fmeasure_for_taxa
            /\ taxon \notin DOMAIN fmeasure_for_taxa =>
                \A n \in Nodes(tree) : taxon \notin Tokens(label[n])

\* a run is complete in which a taxon was skipped and another was placed
C10_Witness ==
    /\ pc = "done"
    /\ \E taxon \in AllTaxa : taxon \notin DOMAIN fmeasure_for_taxa
    /\ \E taxon \in AllTaxa : taxon[1] # 0 /\ taxon \in DOMAIN fmeasure_for_taxa

\* the leaves of the taxon below a node
LeavesOf(node, taxon) ==
    {l \in leaf_iter(tree, node) : taxonomy[l][taxon[1] + 1] = taxon}

\* the lowest node whose subtree holds all the given leaves
LowestCommonAncestor(leaves) ==
    CHOOSE n \in Nodes(tree) :
        /\ leaves \subseteq leaf_iter(tree, n)
        /\ \A m \in Nodes(tree) :
            leaves \subseteq leaf_iter(tree, m) => IsAncestorOrSelf(tree, m, n)

\* _fmeasure is running or has just returned: no candidate list is resolved yet
InSearch == pc \in {"fmeasure", "assign"}

\* the node derived from the candidates the search found for the parent taxon
ParentDerived(taxon) ==
    LET cands == fmeasure_for_taxa[taxon_parents_last(taxonomy, taxon)]
    IN  IF Len(cands) = 1 THEN cands[1][1]
        ELSE LowestCommonAncestor(
                UNION {leaf_iter(tree, cands[i][1]) : i \in 1..Len(cands)})

\* fewer than half of the leaves of the taxon are below the node
FewerThanHalf(node, taxon) ==
    2 * Cardinality(LeavesOf(node, taxon)) < Cardinality(LeavesOf(seed_node, taxon))

\* C11: for a taxon below the most general rank whose parent taxon has
\* candidates, the search root is the single candidate node of the parent, or
\* the lowest common ancestor of the leaves below all its tied candidates,
\* and it is the seed node instead exactly when fewer than half of the leaves
\* of the taxon in the tree are below that node; exactly half keeps the node.
C11_SearchRootRule ==
    \A taxon \in DOMAIN search_root :
        (InSearch /\ taxon[1] # 0) =>
            search_root[taxon] =
                IF FewerThanHalf(ParentDerived(taxon), taxon)
                THEN seed_node ELSE ParentDerived(taxon)

\* the search is over and a taxon has exactly half of its leaves below the
\* node derived from its parent taxon, which is not the seed node and is kept
C11_Witness ==
    /\ pc = "assign"
    /\ \E taxon \in DOMAIN search_root :
        /\ taxon[1] # 0
        /\ ParentDerived(taxon) # seed_node
        /\ 2 * Cardinality(LeavesOf(ParentDerived(taxon), taxon))
                = Cardinality(LeavesOf(seed_node, taxon))
        /\ search_root[taxon] = ParentDerived(taxon)

\* the resolver is about to resolve the ambiguous taxon at the head of its list
ResolvingAmbiguous ==
    pc = "resolve" /\ Len(fmeasure_for_taxa[Head(todo)]) # 1

\* the taxon has one candidate left and is written on the node of this candidate
Committed(taxon) ==
    /\ Len(fmeasure_for_taxa[taxon]) = 1
    /\ taxon \in Tokens(label[fmeasure_for_taxa[taxon][1][1]])

\* within a run, a taxon with one candidate keeps this candidate, and a step of
\* the resolver leaves it on the nodes that carry it and on no other
SingleCandidateKept ==
    run_no' = run_no =>
        \A taxon \in DOMAIN fmeasure_for_taxa :
            Len(fmeasure_for_taxa[taxon]) = 1 =>
                /\ taxon \in DOMAIN fmeasure_for_taxa'
                /\ fmeasure_for_taxa'[taxon] = fmeasure_for_taxa[taxon]
                /\ pc = "resolve" =>
                    \A n \in Nodes(tree) :
                        taxon \in Tokens(label[n]) <=> taxon \in Tokens(label'[n])

\* C12: the resolver goes from the most specific rank to the most general: when
\* it resolves an ambiguous taxon, every taxon of a strictly more specific rank
\* that has candidates has exactly one and is written on the node of that
\* candidate; a candidate list of length 1 is never changed again in the run,
\* and the resolver does not touch a taxon that was unambiguous after the search.
C12_SpecificBeforeGeneral ==
    /\ [](ResolvingAmbiguous =>
            \A taxon \in DOMAIN fmeasure_for_taxa :
                taxon[1] > Head(todo)[1] => Committed(taxon))
    /\ [][SingleCandidateKept]_vars

\* the resolver is about to resolve an ambiguous taxon of the most general rank
\* after it resolved an ambiguous taxon of the next rank and passed over a taxon
\* that was unambiguous after the search
C12_Witness ==
    /\ ResolvingAmbiguous
    /\ Head(todo)[1] = 0
    /\ \E taxon \in DOMAIN fmeasure_for_taxa :
        /\ taxon[1] > 0
        /\ Len(SearchedCandidates(taxon)) > 1
        /\ Committed(taxon)
    /\ \E taxon \in DOMAIN fmeasure_for_taxa :
        /\ taxon[1] > 0
        /\ taxon \in placed_taxon
        /\ \A i \in 1..Len(todo) : todo[i] # taxon

\* C13: writing the taxonomy of the extant taxa never fails: for every leaf of
\* every final labelled tree _leaf_taxa completes and returns a list, also for
\* a leaf with the fully unclassified taxonomy and for a leaf on whose path to
\* the seed node no node carries a label.
C13_LeafTaxaCompletes ==
    /\ pc # "error"
    /\ pc = "taxonomy" =>
        \A leaf \in leaf_node_iter(tree) :
            _leaf_taxa(tree, label, leaf) # IndexError

====
